---- MODULE Spec2Model ----
(***************************************************************************)
(* A model of eqcorrscan/lib/multi_corr.c: the multi-channel normalised    *)
(* cross-correlation routine multi_normxcorr_fftw (workspace allocation,   *)
(* the parallel loop over channels, the post-processing of every trace,    *)
(* the release of the workspaces and the reduction over channels), the     *)
(* single-channel kernel normxcorr_fftw_main and the time-domain routines  *)
(* normxcorr_time / multi_normxcorr_time.                                  *)
(*                                                                         *)
(* Samples are integers in units of 1e-4 (1.0 is 10000); NaN is a value of *)
(* its own.  Arrays are functions from the source's flat 0-based indexes.  *)
(***************************************************************************)
EXTENDS Integers, Sequences, FiniteSets, TLC

\* ---------------------------------------------------------------- bounds
MaxChannels == 2
MaxTemplates == 2
MaxTraces == 4
MaxSteps == 2
MaxWorkers == 2
TemplateLens == {1, 2}

\* ------------------------------------------------------- sample values
\* 1.0f, the clamp target of lines 582-587.
One == 10000
\* 1.01, the tolerance of line 578.
Tolerance == 10100
\* The value isnanf (line 574) recognises.
NaN == 99999
\* What the caller's output buffer holds before the call.
Stale == 4242

isnanf(v) == v = NaN

fabsf(v) == IF v < 0 THEN -v ELSE v

\* ------------------------------------------------------------ variables
VARIABLES
    \* arguments of the call (lines 409-410) and the worker limit N_THREADS
    n_channels, n_templates, template_len, image_len, fft_len, N_THREADS,
    \* which inputs the call is given: "seed", "full" (what the kernel
    \* writes is given) or "numeric" (templates and image are given)
    mode,
    \* the caller's arrays, known once the iteration of their channel reads them
    used_chans, pad_array, templates, image,
    \* what normxcorr_fftw_main writes into the output for these inputs
    kernelOut,
    \* control
    pc, ai, wi, num_threads,
    \* the six pointer arrays, their per-worker buffers, the three plans
    ptrs, bufs, plans,
    \* a free of a pointer that is not the result of a live allocation
    badFree,
    \* the parallel loop: state of each channel iteration, and per worker its
    \* channel, its template index j and its private copies of r and s
    cstate, wchan, wj, wr, ws,
    \* the output tensor
    ncc,
    \* history: each trace after masking/sanitising and before the pad shift,
    \* the tensor before the reduction, traces whose pad shift ran, whether a
    \* pad copy read a cell it had already written, whether inputs were read,
    \* whether the output was written, out-of-bounds accesses of the kernel
    \* the cells of image[], templates[] and ncc[] the kernel read or wrote
    ySan, yPre, padded, dirtyRead, inputsRead, outputWritten, oob,
    imageRead, templRead, nccWritten,
    \* per output cell of a kernel call in double arithmetic: whether its value
    \* came from the division by stdev, and the sign of that value
    floorOut,
    \* per workspace index the channel iterations using it now, and per output
    \* cell the <<worker, channel>> pairs that have written it
    wsBusy, writers,
    \* the reduced counters, the returned status, whether the accumulator ran
    r, s, status, accumulated

shapeVars == <<n_channels, n_templates, template_len, image_len, fft_len, N_THREADS, mode>>
inputVars == <<used_chans, pad_array, templates, image, kernelOut>>
heapVars == <<ptrs, bufs, plans, badFree>>
loopVars == <<cstate, wchan, wj, wr, ws>>
histVars == <<ySan, yPre, padded, dirtyRead, inputsRead, outputWritten, oob,
              imageRead, templRead, nccWritten, floorOut, wsBusy, writers>>
retVars == <<r, s, status, accumulated>>
vars == <<shapeVars, inputVars, heapVars, loopVars, histVars, retVars, pc, ai, wi, num_threads, ncc>>

\* ---------------------------------------------------------------- shape
\* size_t size = image_len - template_len + 1 (line 562; dimz of line 625)
size == image_len - template_len + 1

\* ncc_offset of line 537
ncc_offset(i) == size * n_templates * i

\* offset of line 626: the cells of one channel plane
offset == n_templates * size

Channels == 0..(n_channels - 1)
Templates == 0..(n_templates - 1)
Workers == 0..(num_threads - 1)
Arrays == 1..6

\* line 426
NumThreads(nthr, nchan) == IF nthr > nchan THEN nchan ELSE nthr

\* ---------------------------------------------------- workspace release
FreedState(st) == IF st = "alloc" THEN "freed" ELSE st

BadFreeOf(st) == st \in {"uninit", "freed"}

\* free_fftw_arrays(size, ...) of lines 387-406 on the pointer arrays p and
\* the buffers b: the new arrays and whether a free was illegal.
free_fftw_arrays(sz, p, b) ==
    [ptrs |-> [a \in Arrays |-> FreedState(p[a])],
     bufs |-> [a \in Arrays |->
                 [i \in DOMAIN b[a] |-> IF i < sz THEN FreedState(b[a][i]) ELSE b[a][i]]],
     bad |-> \/ \E a \in Arrays : BadFreeOf(p[a])
             \/ \E a \in Arrays : \E i \in 0..(sz - 1) :
                  i \notin DOMAIN b[a] \/ BadFreeOf(b[a][i])]

\* a release that stops one row short of the failing worker
FreeSizeShort(i) == i

\* the size argument of the calls of free_fftw_arrays in lines 481-521
FreeSizeOnError(i) == i + 1

\* ------------------------------------------------------ post-processing
\* a zeroing loop that starts at the second cell
MaskSecond == 0 + 1

\* the first cell of the zeroing loop of line 565
MaskFirst == 0

\* lines 565-567 and 598-600: cells k..sz-1 of a trace are set to zero
RECURSIVE ZeroLoop(_, _, _, _)
ZeroLoop(a, base, k, sz) ==
    IF k < sz THEN ZeroLoop([a EXCEPT ![base + k] = 0], base, k + 1, sz) ELSE a

\* line 578
IsOverflow(v) == fabsf(v) > Tolerance

\* a sanitiser whose lower clamp has the wrong sign
SanitiseWrongSign(v) ==
    IF isnanf(v) THEN 0
    ELSE IF IsOverflow(v) THEN v
    ELSE IF v > One THEN One
    ELSE IF v < -One THEN One
    ELSE v

\* lines 574-587 on one sample: the value left in the cell
SanitiseSample(v) ==
    IF isnanf(v) THEN 0
    ELSE IF IsOverflow(v) THEN v
    ELSE IF v > One THEN One
    ELSE IF v < -One THEN -One
    ELSE v

\* an overflow test made before (instead of after) the NaN test
OverflowCountNaN(v) == IF isnanf(v) \/ IsOverflow(v) THEN 1 ELSE 0

\* lines 574-580 on one sample: the increment of s
OverflowCount(v) == IF ~isnanf(v) /\ IsOverflow(v) THEN 1 ELSE 0

\* lines 570-588
RECURSIVE SanitiseLoop(_, _, _, _, _)
SanitiseLoop(a, base, k, sz, cnt) ==
    IF k < sz
    THEN SanitiseLoop([a EXCEPT ![base + k] = SanitiseSample(a[base + k])], base, k + 1, sz,
                      cnt + OverflowCount(a[base + k]))
    ELSE [a |-> a, s |-> cnt]

\* a shift that starts one cell late
PadStartLate(p, sz) == IF p < 0 THEN sz + 1 ELSE p + 1

\* pad_array[...] converted to size_t (line 595): a negative int becomes a
\* value above every size; only k < size is ever asked of it.
PadStart(p, sz) == IF p < 0 THEN sz + 1 ELSE p

\* the source cell of the copy of line 596
CopySource(k, m) == k

\* lines 595-597: copy forward, noting a read of a cell already written
RECURSIVE CopyLoop(_, _, _, _, _, _)
CopyLoop(a, base, k, m, sz, dirty) ==
    IF k < sz
    THEN CopyLoop([a EXCEPT ![base + m] = a[base + CopySource(k, m)]], base, k + 1, m + 1, sz,
                  dirty \/ (CopySource(k, m) < m))
    ELSE [a |-> a, m |-> m, dirty |-> dirty]

\* lines 594-600
ApplyPad(a, base, p, sz) ==
    LET c == CopyLoop(a, base, PadStart(p, sz), 0, sz, FALSE)
    IN  [a |-> ZeroLoop(c.a, base, c.m, sz), dirty |-> c.dirty]

\* line 591
PadAllowed(cnt) == cnt = 0

\* the body of the loop of lines 560-602 for template j of channel i, with
\* the worker's private overflow count cnt
PostProcessTrace(a, i, j, cnt, used, pad) ==
    LET base == ncc_offset(i) + j * size
        san == IF ~used[i * n_templates + j]
               THEN [a |-> ZeroLoop(a, base, MaskFirst, size), s |-> cnt]
               ELSE SanitiseLoop(a, base, 0, size, cnt)
        shifted == IF PadAllowed(san.s)
                   THEN ApplyPad(san.a, base, pad[i * n_templates + j], size)
                   ELSE [a |-> san.a, dirty |-> FALSE]
    IN  [ncc |-> shifted.a, s |-> san.s, san |-> san.a,
         padded |-> PadAllowed(san.s), dirty |-> shifted.dirty]

\* ------------------------------------------------------------ reduction
\* lines 633-636 for one cell accum of the first plane
RECURSIVE AccumLoop(_, _, _)
AccumLoop(a, accum, k) ==
    IF k < n_channels
    THEN AccumLoop([a EXCEPT ![accum] = a[accum] + a[accum + k * offset]], accum, k + 1)
    ELSE a

\* a reduction that starts one channel late
AccumSecond == 1 + 1

\* the first channel added to the first plane (line 633)
AccumFirst == 1

\* lines 628-638: the cells of the first plane are independent of each other
Accumulate(a) ==
    [idx \in DOMAIN a |-> IF idx < offset THEN AccumLoop(a, idx, AccumFirst)[idx] ELSE a[idx]]

\* lines 617-622
DecideStatus(rr, ss) == IF rr # 0 THEN rr ELSE IF ss # 0 THEN -1 ELSE 0

RECURSIVE SumOver(_, _)
SumOver(f, S) ==
    IF S = {} THEN 0 ELSE LET x == CHOOSE x \in S : TRUE IN f[x] + SumOver(f, S \ {x})

\* ------------------------------------------------------------ numerics
\* Template samples are integers in units of 1/TemplUnit.den and image
\* samples integers in units of 1/ImageUnit.den; means, variances and sums
\* are carried as exact integers over the denominators stated with them.
\* Results are in units of 1e-4, rounded towards zero.
TemplUnit == [den |-> 4]

ImageUnit == [den |-> 1]

TemplVals == {-2, -1, 1, 2}

ImageVals == {0, 1, 3}

\* acceptedDiff = 0.0000001 (line 273), as 1 / AcceptedDiffDen
AcceptedDiffDen == 10000000

RECURSIVE IsqrtIn(_, _, _)
IsqrtIn(x, lo, hi) ==
    IF lo >= hi THEN lo
    ELSE LET mid == (lo + hi + 1) \div 2
         IN  IF mid * mid <= x THEN IsqrtIn(x, mid, hi) ELSE IsqrtIn(x, lo, mid - 1)

\* the integer part of sqrt(x)
Isqrt(x) == IsqrtIn(x, 0, 46340)

\* the integer part of 1e8 * p / q, by long division
Scale8(p, q) ==
    LET r0 == p % q
        d1 == (r0 * 10000) \div q
        r1 == (r0 * 10000) % q
        d2 == (r1 * 10000) \div q
    IN  (p \div q) * 100000000 + d1 * 10000 + d2

\* num / sqrt(q) in units of 1e-4, for num = sgn * sqrt(p); 0/0 is NaN
Quotient(sgn, p, q) ==
    IF q = 0 THEN NaN
    ELSE IF sgn < 0 THEN -Isqrt(Scale8(p, q)) ELSE Isqrt(Scale8(p, q))

\* var < acceptedDiff and var > acceptedDiff for var = vn / vd (lines 318, 337)
\* (vn * AcceptedDiffDen < vd and vn * AcceptedDiffDen > vd, for vd >= 1)
BelowFloor(vn, vd) == vn <= (vd - 1) \div AcceptedDiffDen

AboveFloor(vn, vd) == vn > vd \div AcceptedDiffDen

\* a centring one cell too far
StartIndLate == template_len

\* startind of line 316
StartInd == template_len - 1

\* the transforms and the product (lines 289-301), as the exact circular
\* convolution of template_ext row t with image_ext, scaled by
\* fft_len * n_templates: cell n of row t of ccc
Ccc(text, iext, t, n) ==
    fft_len * n_templates
        * SumOver([m \in 0..(fft_len - 1) |->
                      text[(t * fft_len) + m] * iext[((n - m) + fft_len) % fft_len]],
                  0..(fft_len - 1))

\* normxcorr_fftw_main (lines 271-349) on the templates templ and the image
\* img of one channel: the value written to each cell of its output slice
normxcorr_fftw_main(templ, img) ==
    LET L == template_len
        \* lines 277-287, after the memset of lines 546-547
        text == [idx \in 0..(fft_len * n_templates - 1) |->
                    IF idx % fft_len < L
                    THEN templ[(((idx \div fft_len) + 1) * L) - ((idx % fft_len) + 1)]
                    ELSE 0]
        iext == [i \in 0..(fft_len - 1) |-> IF i < image_len THEN img[i] ELSE 0]
        norm_sums == [t \in Templates |->
                         SumOver([i \in 0..(L - 1) |-> templ[(t * L) + i]], 0..(L - 1))]
        \* lines 305-314: mean * L and var * L^3 of the first window
        sum0 == SumOver([i \in 0..(L - 1) |-> img[i]], 0..(L - 1))
        var0 == SumOver([i \in 0..(L - 1) |-> (L * img[i] - sum0) * (L * img[i] - sum0)],
                        0..(L - 1))
        \* lines 330-335: the running mean * L and var * L^3 of column i
        mom[i \in 0..(size - 1)] ==
            IF i = 0 THEN [mean |-> sum0, var |-> var0]
            ELSE LET new_samp == img[i + L - 1]
                     old_samp == img[i - 1]
                     old_mean == mom[i - 1].mean
                     mean == old_mean + (new_samp - old_samp)
                 IN  [mean |-> mean,
                      var |-> mom[i - 1].var
                                + (new_samp - old_samp)
                                    * ((L * new_samp - mean) + (L * old_samp - old_mean)) * L]
        vd == L * L * L * ImageUnit.den * ImageUnit.den
        \* lines 322, 338: ((ccc / (fft_len * n_templates)) - norm_sums * mean) / stdev
        c(t, i) ==
            LET corr == Ccc(text, iext, t, i + StartInd) \div (fft_len * n_templates)
                num == L * corr - norm_sums[t] * mom[i].mean
            IN  Quotient(num, num * num * L, TemplUnit.den * TemplUnit.den * mom[i].var)
    IN  [idx \in {(t * size) + i : t \in Templates, i \in 0..(size - 1)} |->
            LET t == idx \div size
                i == idx % size
            IN  IF i = 0
                THEN IF BelowFloor(mom[0].var, vd) THEN 0 ELSE c(t, 0)
                ELSE IF AboveFloor(mom[i].var, vd) THEN c(t, i) ELSE 0]

\* normxcorr_time (lines 353-384) on one template tmpl and the image img
normxcorr_time(tmpl, img) ==
    LET L == template_len
        auto_a == SumOver([p \in 0..(L - 1) |-> tmpl[p] * tmpl[p]], 0..(L - 1))
        \* lines 360-363 and 373: mean * L of column k
        mean[k \in 0..(size - 1)] ==
            IF k = 0 THEN SumOver([p \in 0..(L - 1) |-> img[p]], 0..(L - 1))
            ELSE mean[k - 1] + (img[k + L - 1] - img[k - 1])
        numerator(k) ==
            SumOver([p \in 0..(L - 1) |-> tmpl[p] * (L * img[p + k] - mean[k])], 0..(L - 1))
        auto_b(k) ==
            SumOver([p \in 0..(L - 1) |-> (L * img[p + k] - mean[k]) * (L * img[p + k] - mean[k])],
                    0..(L - 1))
    IN  [k \in 0..(size - 1) |->
            Quotient(numerator(k), numerator(k) * numerator(k), auto_a * auto_b(k))]

\* multi_normxcorr_time (lines 644-650)
multi_normxcorr_time(templ, img) ==
    [idx \in 0..(n_templates * size - 1) |->
        normxcorr_time([p \in 0..(template_len - 1) |-> templ[template_len * (idx \div size) + p]],
                       img)[idx % size]]

\* ------------------------------------------------- double arithmetic
\* The kernel's mean, var and their updates are C doubles (line 273): every
\* +, -, * and pow rounds its exact result to a 53-bit significand, to
\* nearest, ties to even.  A significand is a natural number held as a
\* little-endian sequence of limbs; a double is sgn * m * 2^e.
LimbBits == 12

LimbBase == 4096

SignificandBits == 53

RECURSIVE Pow2(_)
Pow2(n) == IF n = 0 THEN 1 ELSE 2 * Pow2(n - 1)

At(a, i) == IF i >= 1 /\ i <= Len(a) THEN a[i] ELSE 0

RECURSIVE Strip(_)
Strip(a) == IF a = <<>> \/ a[Len(a)] # 0 THEN a ELSE Strip(SubSeq(a, 1, Len(a) - 1))

RECURSIVE Carry(_, _, _)
Carry(a, i, c) ==
    IF i > Len(a) /\ c = 0 THEN <<>>
    ELSE LET v == At(a, i) + c
         IN  <<v % LimbBase>> \o Carry(a, i + 1, v \div LimbBase)

MaxOf(a, b) == IF a < b THEN b ELSE a

BigAdd(a, b) == Strip(Carry([i \in 1..MaxOf(Len(a), Len(b)) |-> At(a, i) + At(b, i)], 1, 0))

\* a - b for a >= b
BigSub(a, b) == Strip(Carry([i \in 1..MaxOf(Len(a), Len(b)) |-> At(a, i) - At(b, i)], 1, 0))

RECURSIVE Column(_, _, _, _)
Column(a, b, k, i) ==
    IF i > Len(a) THEN 0 ELSE a[i] * At(b, k + 1 - i) + Column(a, b, k, i + 1)

\* schoolbook product: a column holds at most 9 limb products, below 2^31
BigMul(a, b) ==
    IF a = <<>> \/ b = <<>> THEN <<>>
    ELSE Strip(Carry([k \in 1..(Len(a) + Len(b) - 1) |-> Column(a, b, k, 1)], 1, 0))

RECURSIVE BigCmpAt(_, _, _)
BigCmpAt(a, b, i) ==
    IF i = 0 THEN 0
    ELSE IF a[i] > b[i] THEN 1
    ELSE IF a[i] < b[i] THEN -1
    ELSE BigCmpAt(a, b, i - 1)

\* the sign of a - b, for stripped a and b
BigCmp(a, b) ==
    IF Len(a) > Len(b) THEN 1
    ELSE IF Len(a) < Len(b) THEN -1
    ELSE BigCmpAt(a, b, Len(a))

RECURSIVE SmallBitLen(_)
SmallBitLen(v) == IF v = 0 THEN 0 ELSE 1 + SmallBitLen(v \div 2)

BitLen(a) == IF a = <<>> THEN 0 ELSE (Len(a) - 1) * LimbBits + SmallBitLen(a[Len(a)])

ShiftLeft(a, n) ==
    IF a = <<>> THEN <<>>
    ELSE [i \in 1..(n \div LimbBits) |-> 0]
            \o Strip(Carry([i \in 1..Len(a) |-> a[i] * Pow2(n % LimbBits)], 1, 0))

\* the integer part of a / 2^n
ShiftRight(a, n) ==
    LET q == n \div LimbBits
        rr == n % LimbBits
        hi == IF q >= Len(a) THEN <<>> ELSE SubSeq(a, q + 1, Len(a))
    IN  Strip([i \in 1..Len(hi) |->
                  (hi[i] \div Pow2(rr)) + (At(hi, i + 1) % Pow2(rr)) * Pow2(LimbBits - rr)])

\* a / 2^n rounded to the nearest integer, ties to even (n >= 1)
ShiftRightRNE(a, n) ==
    LET q == ShiftRight(a, n)
        rem == BigSub(a, ShiftLeft(q, n))
        cmp == BigCmp(rem, ShiftLeft(<<1>>, n - 1))
        up == cmp > 0 \/ (cmp = 0 /\ At(q, 1) % 2 = 1)
    IN  IF up THEN BigAdd(q, <<1>>) ELSE q

RECURSIVE Limbs(_)
Limbs(n) == IF n = 0 THEN <<>> ELSE <<n % LimbBase>> \o Limbs(n \div LimbBase)

DZero == [sgn |-> 0, m |-> <<>>, e |-> 0]

\* the double that the integer n * 2^e is (|n| < 2^31 needs no rounding)
DInt(n, e) ==
    IF n = 0 THEN DZero
    ELSE [sgn |-> IF n < 0 THEN -1 ELSE 1, m |-> Limbs(IF n < 0 THEN -n ELSE n), e |-> e]

Round53(x) ==
    IF BitLen(x.m) <= SignificandBits THEN x
    ELSE LET n == BitLen(x.m) - SignificandBits
         IN  [sgn |-> x.sgn, m |-> ShiftRightRNE(x.m, n), e |-> x.e + n]

DNeg(x) == [x EXCEPT !.sgn = -x.sgn]

\* x + y without rounding
ExactAdd(x, y) ==
    IF x.sgn = 0 THEN y
    ELSE IF y.sgn = 0 THEN x
    ELSE LET e == IF x.e < y.e THEN x.e ELSE y.e
             mx == ShiftLeft(x.m, x.e - e)
             my == ShiftLeft(y.m, y.e - e)
             cmp == BigCmp(mx, my)
         IN  IF x.sgn = y.sgn THEN [sgn |-> x.sgn, m |-> BigAdd(mx, my), e |-> e]
             ELSE IF cmp = 0 THEN DZero
             ELSE IF cmp > 0 THEN [sgn |-> x.sgn, m |-> BigSub(mx, my), e |-> e]
             ELSE [sgn |-> y.sgn, m |-> BigSub(my, mx), e |-> e]

DAdd(x, y) == Round53(ExactAdd(x, y))

DSub(x, y) == Round53(ExactAdd(x, DNeg(y)))

\* x * y without rounding
ExactMul(x, y) ==
    IF x.sgn = 0 \/ y.sgn = 0 THEN DZero
    ELSE [sgn |-> x.sgn * y.sgn, m |-> BigMul(x.m, y.m), e |-> x.e + y.e]

DMul(x, y) == Round53(ExactMul(x, y))

\* x / L for L a power of two: exact
DDivPow2(x, L) == IF x.sgn = 0 THEN DZero ELSE [x EXCEPT !.e = x.e - (SmallBitLen(L) - 1)]

\* the sign of x - y
DCmp(x, y) == ExactAdd(x, DNeg(y)).sgn

\* acceptedDiff = 0.0000001 (line 273) as the double it is:
\* 7555786372591432 * 2^-76
acceptedDiff == [sgn |-> 1, m |-> <<3912, 3018, 666, 3455, 26>>, e |-> -76]

\* In these calls image samples are floats given as integers in units of
\* 2^ImageExp and template samples as integers in units of 2^TemplExp.
ImageExp == -12

TemplExp == -2

\* 0, 2^-12, -2^-11 and 65536.0
FloorImageVals == {0, 1, -2, 268435456}

\* the numbers of columns of these calls
FloorSteps == {1, 2, 3}

\* sum += f[i] for i = lo..hi-1, a double accumulating floats (lines 281, 306)
RECURSIVE DSum(_, _, _, _)
DSum(f, lo, hi, acc) == IF lo >= hi THEN acc ELSE DSum(f, lo + 1, hi, DAdd(acc, f[lo]))

\* var += pow(image[i] - mean, 2) / template_len for i = lo..hi-1 (line 312)
RECURSIVE DVar(_, _, _, _, _)
DVar(x, mean, lo, hi, acc) ==
    IF lo >= hi THEN acc
    ELSE LET d == DSub(x[lo], mean)
         IN  DVar(x, mean, lo + 1, hi, DAdd(acc, DDivPow2(DMul(d, d), template_len)))

\* mean and var of every column as the kernel computes them: lines 305-314
\* for column 0, the running update of lines 330-334 for the later ones
Moments(img) ==
    LET L == template_len
        x == [i \in DOMAIN img |-> DInt(img[i], ImageExp)]
        mean0 == DDivPow2(DSum(x, 0, L, DZero), L)
        mom[i \in 0..(size - 1)] ==
            IF i = 0 THEN [mean |-> mean0, var |-> DVar(x, mean0, 0, L, DZero)]
            ELSE LET new_samp == x[i + L - 1]
                     old_samp == x[i - 1]
                     old_mean == mom[i - 1].mean
                     mean == DAdd(old_mean, DDivPow2(DSub(new_samp, old_samp), L))
                 IN  [mean |-> mean,
                      var |-> DAdd(mom[i - 1].var,
                                   DDivPow2(DMul(DSub(new_samp, old_samp),
                                                 DSub(DAdd(DSub(new_samp, mean), old_samp),
                                                      old_mean)),
                                            L))]
    IN  mom

\* whether column i takes the branch that divides by stdev: the else of
\* line 318 for column 0, the then of line 337 for a later column
Divides(i, var) == IF i = 0 THEN ~(DCmp(var, acceptedDiff) < 0) ELSE DCmp(var, acceptedDiff) > 0

\* the exact sum of t[tb + p] * x[xb + p] over p = 0..n-1
RECURSIVE ExactCorr(_, _, _, _, _)
ExactCorr(t, x, tb, xb, n) ==
    IF n = 0 THEN DZero
    ELSE ExactAdd(ExactCorr(t, x, tb, xb, n - 1), ExactMul(t[tb + n - 1], x[xb + n - 1]))

\* the sign of the numerator of lines 322 and 338 for template t in column i:
\* ccc / (fft_len * n_templates) is the exact correlation, a double
NumeratorSign(templ, img, mean, t, i) ==
    LET L == template_len
        tf == [k \in DOMAIN templ |-> DInt(templ[k], TemplExp)]
        norm_sum == DSum(tf, t * L, (t + 1) * L, DZero)
        x == [k \in DOMAIN img |-> DInt(img[k], ImageExp)]
        corr == Round53(ExactCorr(tf, x, t * L, i, L))
    IN  DSub(corr, DMul(norm_sum, mean)).sgn

\* normxcorr_fftw_main (lines 303-345) in double arithmetic: for every cell
\* of the output whether its value was obtained by the division by stdev,
\* and the sign of the value written (stdev is positive where it divides)
KernelColumns(templ, img) ==
    LET mom == Moments(img)
    IN  [idx \in {(t * size) + i : t \in Templates, i \in 0..(size - 1)} |->
            LET t == idx \div size
                i == idx % size
            IN  IF Divides(i, mom[i].var)
                THEN [divided |-> TRUE, sgn |-> NumeratorSign(templ, img, mom[i].mean, t, i)]
                ELSE [divided |-> FALSE, sgn |-> 0]]

\* ------------------------------------------- accesses of the FFT kernel
\* image[] cells read by normxcorr_fftw_main: lines 286, 306, 312, 330, 331
ImageReads ==
    (0..(image_len - 1)) \cup (0..(template_len - 1))
        \cup {i + template_len - 1 : i \in 1..(size - 1)} \cup {i - 1 : i \in 1..(size - 1)}

\* templates[] cells read: lines 280, 281
TemplateReads ==
    {((t + 1) * template_len) - (i + 1) : t \in Templates, i \in 0..(template_len - 1)}
        \cup {(t * template_len) + i : t \in Templates, i \in 0..(template_len - 1)}

\* ncc[] cells written: lines 319/323 (column 0) and 339/342 (later columns)
NccWrites ==
    {t * size : t \in Templates} \cup {(t * size) + i : t \in Templates, i \in 1..(size - 1)}

\* template_ext[] (line 280) and image_ext[] (line 286) cells written
TemplateExtWrites == {(t * fft_len) + i : t \in Templates, i \in 0..(template_len - 1)}

ImageExtWrites == 0..(image_len - 1)

\* ccc[] cells read: lines 322, 338
CccReads == {(t * fft_len) + i + template_len - 1 : t \in Templates, i \in 0..(size - 1)}

\* an access of the kernel outside the array it indexes
KernelOOB ==
    \/ ~(ImageReads \subseteq 0..(image_len - 1))
    \/ ~(TemplateReads \subseteq 0..(n_templates * template_len - 1))
    \/ ~(NccWrites \subseteq 0..(n_templates * size - 1))
    \/ ~(TemplateExtWrites \subseteq 0..(fft_len * n_templates - 1))
    \/ ~(ImageExtWrites \subseteq 0..(fft_len - 1))
    \/ ~(CccReads \subseteq 0..(fft_len * n_templates - 1))

\* ----------------------------------------------------------- the inputs
SampleVals == {NaN, -10200, -10050, 2000, 10100, 10200}

Ramp(sz) == [k \in 0..(sz - 1) |-> 1000 * (k + 1)]

Dirty(sz) == [k \in 0..(sz - 1) |-> IF k % 2 = 0 THEN NaN ELSE -10050]

Over(sz) == [k \in 0..(sz - 1) |-> IF k = sz - 1 THEN 10200 ELSE 1000 * (k + 1)]

\* per trace: the mask flag, the pad and what the kernel writes for it
SeedTraces(sz) ==
    {[used |-> TRUE, pad |-> 1, y |-> Ramp(sz)],
     [used |-> TRUE, pad |-> 0, y |-> Dirty(sz)],
     [used |-> TRUE, pad |-> 1, y |-> Over(sz)],
     [used |-> FALSE, pad |-> 1, y |-> Over(sz)],
     [used |-> FALSE, pad |-> 0, y |-> Dirty(sz)]}

FullTraces(sz) ==
    [used : BOOLEAN, pad : (-1)..(sz + 1), y : [0..(sz - 1) -> SampleVals]]

\* the oracle comparison is made without mask and pad
PlainTraces == {[used |-> TRUE, pad |-> 0]}

TraceDomain ==
    IF mode = "seed" THEN SeedTraces(size)
    ELSE IF mode = "full" THEN FullTraces(size)
    ELSE PlainTraces

Numeric == mode \in {"numeric", "kernel"}

\* the arrays of one channel: its templates and image (left out where what
\* the kernel writes is given instead) and, per trace, mask, pad and content
ChannelInputs ==
    [templ : IF Numeric THEN [0..(n_templates * template_len - 1) -> TemplVals] ELSE {<<>>},
     img : IF Numeric THEN [0..(image_len - 1) -> ImageVals] ELSE {<<>>},
     tr : [Templates -> TraceDomain]]

\* the cells of channel i in a tensor of n_templates entries per channel
MaskCells(i) == {i * n_templates + j : j \in Templates}

NccCells(i) == {ncc_offset(i) + k : k \in 0..(offset - 1)}

ValidShape ==
    /\ n_templates >= 0 /\ n_channels >= 0 /\ template_len >= 0 /\ image_len >= 0
    /\ fft_len >= 0 /\ fft_len >= image_len /\ template_len <= image_len

\* ----------------------------------------------------------------- Init
InitCall ==
    /\ used_chans = <<>> /\ pad_array = <<>> /\ templates = <<>> /\ image = <<>>
    /\ kernelOut = <<>>
    /\ pc = "entry" /\ ai = 1 /\ wi = 0 /\ num_threads = 1
    /\ ptrs = [a \in Arrays |-> "null"]
    /\ bufs = [a \in Arrays |-> <<>>]
    /\ plans = "none" /\ badFree = FALSE
    /\ cstate = [c \in Channels |-> "todo"]
    /\ wchan = <<>> /\ wj = <<>> /\ wr = <<>> /\ ws = <<>>
    /\ ncc = [idx \in 0..(n_channels * offset - 1) |-> Stale]
    /\ ySan = [idx \in 0..(n_channels * offset - 1) |-> Stale]
    /\ yPre = <<>> /\ padded = {} /\ dirtyRead = FALSE
    /\ inputsRead = FALSE /\ outputWritten = FALSE /\ oob = FALSE
    /\ imageRead = {} /\ templRead = {} /\ nccWritten = {}
    /\ floorOut = <<>>
    /\ wsBusy = <<>>
    /\ writers = [idx \in 0..(n_channels * offset - 1) |-> {}]
    /\ r = 0 /\ s = 0 /\ status = 0 /\ accumulated = FALSE

\* calls of valid shape on several channels and templates (the orchestrator
\* depends on template_len and image_len only through size)
Init ==
    /\ mode = "seed"
    /\ n_channels \in 1..MaxChannels
    /\ n_templates \in 1..MaxTemplates
    /\ n_channels * n_templates <= MaxTraces
    /\ template_len = 2
    /\ \E st \in 1..MaxSteps : image_len = template_len + st - 1
    /\ fft_len = 2 * image_len
    /\ N_THREADS \in 1..MaxWorkers
    /\ InitCall

\* calls on one trace, of every content, pad and mask, and of any shape
InitTrace ==
    /\ mode = "full"
    /\ n_channels = 1
    /\ n_templates = 1
    /\ template_len \in TemplateLens
    /\ \E st \in 0..MaxSteps : image_len = template_len + st - 1
    /\ image_len >= 1
    /\ fft_len \in {image_len - 1, 2 * image_len}
    /\ fft_len >= 1
    /\ N_THREADS \in 1..MaxWorkers
    /\ InitCall

\* one-channel calls on numeric templates and images, without mask and pad
OracleTemplateCounts == {1, 2}

InitOracle ==
    /\ mode = "numeric"
    /\ n_channels = 1
    /\ n_templates \in OracleTemplateCounts
    /\ template_len \in TemplateLens
    /\ \E st \in 1..MaxSteps : image_len = template_len + st - 1
    /\ fft_len = 2 * image_len
    /\ N_THREADS = 1
    /\ InitCall

\* direct calls of the single-channel kernel on allocated workspaces
KernelTemplateCounts == {0, 1, 2}

InitKernel ==
    /\ mode = "kernel"
    /\ n_channels = 1
    /\ n_templates \in KernelTemplateCounts
    /\ template_len \in TemplateLens
    /\ \E st \in 0..MaxSteps : image_len = template_len + st - 1
    /\ image_len >= 1
    /\ fft_len \in {image_len, 2 * image_len}
    /\ N_THREADS = 1
    /\ InitCall

\* direct calls of the single-channel kernel on images of a wide dynamic
\* range, followed in double arithmetic (template_len a power of two)
InitFloor ==
    /\ mode = "floor"
    /\ n_channels = 1
    /\ n_templates = 1
    /\ template_len \in TemplateLens
    /\ \E st \in FloorSteps : image_len = template_len + st - 1
    /\ fft_len = 2 * image_len
    /\ N_THREADS = 1
    /\ InitCall

\* -------------------------------------------------------------- actions
\* lines 411-427
Enter ==
    /\ pc = "entry"
    /\ num_threads' = NumThreads(N_THREADS, n_channels)
    /\ pc' = "alloc_ptr"
    /\ UNCHANGED <<shapeVars, inputVars, heapVars, loopVars, histVars, retVars, ai, wi, ncc>>

\* lines 430-465: the malloc of pointer array ai and its NULL check
AllocPtr ==
    /\ pc = "alloc_ptr"
    /\ \E ok \in BOOLEAN :
         IF ok
         THEN /\ ptrs' = [ptrs EXCEPT ![ai] = "alloc"]
              /\ bufs' = [bufs EXCEPT ![ai] = [i \in Workers |-> "uninit"]]
              /\ ai' = IF ai = 6 THEN 1 ELSE ai + 1
              /\ pc' = IF ai = 6 THEN "alloc_buf" ELSE "alloc_ptr"
              /\ UNCHANGED <<badFree, status>>
         ELSE LET f == free_fftw_arrays(0, ptrs, bufs)
              IN  /\ ptrs' = f.ptrs /\ bufs' = f.bufs
                  /\ badFree' = (badFree \/ f.bad)
                  /\ status' = 1
                  /\ pc' = "done"
                  /\ ai' = ai
    /\ UNCHANGED <<shapeVars, inputVars, plans, loopVars, histVars, r, s, accumulated, wi,
                   num_threads, ncc>>

\* lines 470-475: row i of every array set to NULL at the top of the loop body
RowInit(b, i) == [a \in Arrays |-> [b[a] EXCEPT ![i] = "null"]]

\* lines 468-524: the allocation of buffer ai of worker wi and its NULL check
AllocBuf ==
    /\ pc = "alloc_buf"
    /\ wi < num_threads
    /\ LET b0 == IF ai = 1 THEN RowInit(bufs, wi) ELSE bufs
       IN  \E ok \in BOOLEAN :
             IF ok
             THEN /\ bufs' = [b0 EXCEPT ![ai][wi] = "alloc"]
                  /\ ai' = IF ai = 6 THEN 1 ELSE ai + 1
                  /\ wi' = IF ai = 6 THEN wi + 1 ELSE wi
                  /\ pc' = "alloc_buf"
                  /\ UNCHANGED <<ptrs, badFree, status>>
             ELSE LET f == free_fftw_arrays(FreeSizeOnError(wi), ptrs, b0)
                  IN  /\ ptrs' = f.ptrs /\ bufs' = f.bufs
                      /\ badFree' = (badFree \/ f.bad)
                      /\ status' = 1
                      /\ pc' = "done"
                      /\ ai' = ai /\ wi' = wi
    /\ UNCHANGED <<shapeVars, inputVars, plans, loopVars, histVars, r, s, accumulated,
                   num_threads, ncc>>

\* lines 529-534: the plans are made on worker 0's buffers, the team starts
\* with private r and s of zero
CreatePlans ==
    /\ pc = "alloc_buf"
    /\ wi = num_threads
    /\ plans' = "created"
    /\ wchan' = [w \in Workers |-> -1]
    /\ wj' = [w \in Workers |-> 0]
    /\ wr' = [w \in Workers |-> 0]
    /\ ws' = [w \in Workers |-> 0]
    /\ wsBusy' = [k \in Workers |-> {}]
    /\ pc' = "parallel"
    /\ UNCHANGED <<shapeVars, inputVars, ptrs, bufs, badFree, cstate, ySan, yPre, padded, dirtyRead,
                   inputsRead, outputWritten, oob, imageRead, templRead, nccWritten, floorOut,
                   writers, retVars, ai, wi, num_threads, ncc>>

\* every worker indexing the workspaces of worker 0
TidZero(w) == 0

\* tid = omp_get_thread_num() of lines 538-543: the workspace index of worker w
Tid(w) == w

\* what the kernel writes into the slice of channel i, as a flat array
SliceOf(inp, i) ==
    IF Numeric
    THEN LET y == normxcorr_fftw_main(inp.templ, inp.img)
         IN  [idx \in NccCells(i) |-> y[idx - ncc_offset(i)]]
    ELSE [idx \in NccCells(i) |->
            inp.tr[(idx - ncc_offset(i)) \div size].y[(idx - ncc_offset(i)) % size]]

\* &templates[n_templates * template_len * i] and &image[image_len * i] of
\* lines 550-551
TemplCells(i) == {n_templates * template_len * i + k : k \in 0..(n_templates * template_len - 1)}

ImageCells(i) == {image_len * i + k : k \in 0..(image_len - 1)}

\* lines 535-554: worker w starts the iteration of channel i: it zeroes its
\* workspace and runs normxcorr_fftw_main, which fills the slice of channel i
StartIteration(w, i) ==
    /\ pc = "parallel"
    /\ wchan[w] = -1
    /\ cstate[i] = "todo"
    /\ \E inp \in ChannelInputs :
         /\ used_chans' = used_chans @@ [m \in MaskCells(i) |-> inp.tr[m - i * n_templates].used]
         /\ pad_array' = pad_array @@ [m \in MaskCells(i) |-> inp.tr[m - i * n_templates].pad]
         /\ templates' = IF Numeric
                          THEN templates @@ [m \in TemplCells(i) |->
                                                inp.templ[m - n_templates * template_len * i]]
                          ELSE templates
         /\ image' = IF Numeric
                      THEN image @@ [m \in ImageCells(i) |-> inp.img[m - image_len * i]]
                      ELSE image
         /\ kernelOut' = kernelOut @@ SliceOf(inp, i)
         /\ ncc' = [idx \in DOMAIN ncc |-> IF idx \in NccCells(i) THEN SliceOf(inp, i)[idx] ELSE ncc[idx]]
    /\ wchan' = [wchan EXCEPT ![w] = i]
    /\ wj' = [wj EXCEPT ![w] = 0]
    /\ wr' = [wr EXCEPT ![w] = wr[w] + 0]
    /\ cstate' = [cstate EXCEPT ![i] = "running"]
    /\ inputsRead' = TRUE
    /\ outputWritten' = (outputWritten \/ NccWrites # {})
    /\ oob' = (oob \/ KernelOOB)
    /\ imageRead' = imageRead \cup {image_len * i + k : k \in ImageReads}
    /\ templRead' = templRead \cup {n_templates * template_len * i + k : k \in TemplateReads}
    /\ nccWritten' = nccWritten \cup {ncc_offset(i) + k : k \in NccWrites}
    /\ wsBusy' = [wsBusy EXCEPT ![Tid(w)] = @ \cup {i}]
    /\ writers' = [idx \in DOMAIN writers |->
                      IF idx \in {ncc_offset(i) + k : k \in NccWrites}
                      THEN writers[idx] \cup {<<w, i>>} ELSE writers[idx]]
    /\ pc' \in IF KernelOOB THEN {"parallel", "crashed"} ELSE {"parallel"}
    /\ UNCHANGED <<shapeVars, heapVars, ws, ySan, yPre, padded, dirtyRead, floorOut,
                   retVars, ai, wi, num_threads>>

\* lines 560-602 for one template j: mask or sanitise, then the pad shift
PostProcess(w) ==
    /\ pc = "parallel"
    /\ wchan[w] # -1
    /\ wj[w] < n_templates
    /\ LET i == wchan[w]
           j == wj[w]
           res == PostProcessTrace(ncc, i, j, ws[w], used_chans, pad_array)
           cells == {ncc_offset(i) + j * size + k : k \in 0..(size - 1)}
       IN  /\ ncc' = res.ncc
           /\ ws' = [ws EXCEPT ![w] = res.s]
           /\ ySan' = [idx \in DOMAIN ySan |-> IF idx \in cells THEN res.san[idx] ELSE ySan[idx]]
           /\ padded' = IF res.padded THEN padded \cup {<<i, j>>} ELSE padded
           /\ dirtyRead' = (dirtyRead \/ res.dirty)
           /\ wj' = [wj EXCEPT ![w] = j + 1]
           /\ wchan' = [wchan EXCEPT ![w] = IF j + 1 = n_templates THEN -1 ELSE i]
           /\ cstate' = [cstate EXCEPT ![i] = IF j + 1 = n_templates THEN "done" ELSE "running"]
           /\ wsBusy' = IF j + 1 = n_templates
                        THEN [wsBusy EXCEPT ![Tid(w)] = @ \ {i}] ELSE wsBusy
           /\ writers' = [idx \in DOMAIN writers |->
                             IF idx \in cells THEN writers[idx] \cup {<<w, i>>} ELSE writers[idx]]
    /\ UNCHANGED <<shapeVars, inputVars, heapVars, wr, yPre, inputsRead, outputWritten, oob,
                   imageRead, templRead, nccWritten, floorOut, retVars, pc, ai, wi,
                   num_threads>>

\* a reduction that keeps the count of worker 0 only
ReduceFirst(f) == f[0]

\* reduction(+:r,s) of line 534: the private copies are summed at the end of
\* the loop
Reduce(f) == SumOver(f, Workers)

\* lines 603-610: the end of the parallel region combines the private r and
\* s; the workspaces and the plans are released
Join ==
    /\ pc = "parallel"
    /\ \A c \in Channels : cstate[c] = "done"
    /\ r' = r + Reduce(wr)
    /\ s' = s + Reduce(ws)
    /\ LET f == free_fftw_arrays(num_threads, ptrs, bufs)
       IN  /\ ptrs' = f.ptrs /\ bufs' = f.bufs
           /\ badFree' = (badFree \/ f.bad \/ plans # "created")
    /\ plans' = "destroyed"
    /\ pc' = "return"
    /\ UNCHANGED <<shapeVars, inputVars, loopVars, histVars, status, accumulated, ai, wi,
                   num_threads, ncc>>

\* lines 617-641
Return ==
    /\ pc = "return"
    /\ status' = DecideStatus(r, s)
    /\ yPre' = ncc
    /\ IF DecideStatus(r, s) = 0
       THEN ncc' = Accumulate(ncc) /\ accumulated' = TRUE
       ELSE UNCHANGED <<ncc, accumulated>>
    /\ pc' = "done"
    /\ UNCHANGED <<shapeVars, inputVars, heapVars, loopVars, ySan, padded, dirtyRead, inputsRead,
                   outputWritten, oob, imageRead, templRead, nccWritten, floorOut, wsBusy,
                   writers, r, s, ai, wi, num_threads>>

\* a call of normxcorr_fftw_main (lines 243-350) on one channel, with its
\* workspaces allocated by the caller: it writes the cells of NccWrites;
\* outside the bounds of an array the behaviour is undefined
NormxcorrFftwMain ==
    /\ pc = "entry"
    /\ \E inp \in ChannelInputs :
         /\ templates' = inp.templ
         /\ image' = inp.img
         /\ kernelOut' = IF KernelOOB THEN <<>> ELSE normxcorr_fftw_main(inp.templ, inp.img)
         /\ ncc' = IF KernelOOB THEN ncc ELSE normxcorr_fftw_main(inp.templ, inp.img)
    /\ inputsRead' = TRUE
    /\ outputWritten' = (NccWrites # {})
    /\ imageRead' = ImageReads
    /\ templRead' = TemplateReads
    /\ nccWritten' = NccWrites
    /\ oob' = KernelOOB
    /\ status' = 0
    /\ pc' \in IF KernelOOB THEN {"done", "crashed"} ELSE {"done"}
    /\ UNCHANGED <<shapeVars, used_chans, pad_array, heapVars, loopVars, ySan, yPre, padded,
                   dirtyRead, floorOut, wsBusy, writers, r, s, accumulated, ai, wi, num_threads>>

NextKernel == NormxcorrFftwMain

\* the inputs of a call followed in double arithmetic
FloorInputs ==
    [templ : [0..(n_templates * template_len - 1) -> TemplVals],
     img : [0..(image_len - 1) -> FloorImageVals]]

\* a call of normxcorr_fftw_main (lines 243-350) of valid shape, followed in
\* double arithmetic: per cell the branch taken and the sign of the value
NormxcorrFftwMainDouble ==
    /\ pc = "entry"
    /\ \E inp \in FloorInputs :
         /\ templates' = inp.templ
         /\ image' = inp.img
         /\ floorOut' = KernelColumns(inp.templ, inp.img)
    /\ inputsRead' = TRUE
    /\ outputWritten' = (NccWrites # {})
    /\ imageRead' = ImageReads
    /\ templRead' = TemplateReads
    /\ nccWritten' = NccWrites
    /\ oob' = KernelOOB
    /\ status' = 0
    /\ pc' = "done"
    /\ UNCHANGED <<shapeVars, used_chans, pad_array, kernelOut, heapVars, loopVars, ySan, yPre,
                   padded, dirtyRead, wsBusy, writers, r, s, accumulated, ai, wi, num_threads,
                   ncc>>

NextFloor == NormxcorrFftwMainDouble

Next ==
    \/ Enter
    \/ AllocPtr
    \/ AllocBuf
    \/ CreatePlans
    \/ \E w \in Workers, i \in Channels : StartIteration(w, i)
    \/ \E w \in Workers : PostProcess(w)
    \/ Join
    \/ Return

Spec == Init /\ [][Next]_vars

SpecTrace == InitTrace /\ [][Next]_vars

SpecAll == (Init \/ InitTrace) /\ [][Next]_vars

SpecOracle == InitOracle /\ [][Next]_vars

SpecKernel == InitKernel /\ [][NextKernel]_vars

SpecFloor == InitFloor /\ [][NextFloor]_vars

\* =============================================================== claims
TraceCells(i, j) == {ncc_offset(i) + j * size + k : k \in 0..(size - 1)}

Returned == pc = "done" /\ plans = "destroyed"

\* a sample of magnitude above 1.01 (NaN has no magnitude)
Gross(v) == v # NaN /\ (v > Tolerance \/ v < -Tolerance)

KeptOverflow ==
    \E i \in Channels, j \in Templates :
        /\ used_chans[i * n_templates + j]
        /\ \E idx \in TraceCells(i, j) : Gross(kernelOut[idx])

MaskedOverflow ==
    \E i \in Channels, j \in Templates :
        /\ ~used_chans[i * n_templates + j]
        /\ \E idx \in TraceCells(i, j) : Gross(kernelOut[idx])

\* C1: when all workspace allocations succeed, the call returns -1 exactly
\* when a sample of a kept trace had magnitude above 1.01 after the kernel
\* ran, and 0 otherwise; a masked trace never causes -1; the accumulator
\* has run only if the status is 0.
C1_Status ==
    /\ Returned => /\ (status = -1) = KeptOverflow
                   /\ (status = 0) = ~KeptOverflow
                   /\ accumulated = (status = 0)
    /\ accumulated => pc = "done" /\ status = 0

C1_Witness ==
    /\ Returned /\ status = -1 /\ KeptOverflow /\ MaskedOverflow /\ num_threads = 2

\* C2: after a successful call every cell of the first plane holds the sum
\* over all channels of the pre-reduction values of that cell.
C2_Accumulation ==
    (Returned /\ status = 0) =>
        \A idx \in 0..(offset - 1) :
            ncc[idx] = SumOver([c \in Channels |-> yPre[idx + c * offset]], Channels)

C2_Witness ==
    /\ Returned /\ status = 0 /\ n_channels = MaxChannels /\ n_templates = 2
    /\ \E idx \in 0..(offset - 1) : \A c \in Channels : yPre[idx + c * offset] > 0

\* the trace after NaN replacement and clamping, as the claims state it
ClaimSan(v) ==
    IF v = NaN THEN 0
    ELSE IF v > One /\ v <= Tolerance THEN One
    ELSE IF v < -One /\ v >= -Tolerance THEN -One
    ELSE v

\* C3: on a successful call, a kept trace with pad p, 0 <= p <= steps, holds
\* the sanitised trace sampled at offset p in its first steps - p cells and
\* zero in its last p cells; the forward copy never reads a cell it has
\* already overwritten.
C3_PadShift ==
    /\ ~dirtyRead
    /\ (Returned /\ status = 0) =>
         \A i \in Channels, j \in Templates :
            LET p == pad_array[i * n_templates + j]
                base == ncc_offset(i) + j * size
            IN  (used_chans[i * n_templates + j] /\ 0 <= p /\ p <= size) =>
                   \A k \in 0..(size - 1) :
                      yPre[base + k] = IF k < size - p THEN ClaimSan(kernelOut[base + k + p]) ELSE 0

C3_Witness ==
    /\ Returned /\ status = 0 /\ size = 2
    /\ used_chans[0] /\ pad_array[0] = 1
    /\ kernelOut[1] = -10050 /\ kernelOut[0] = 2000
    /\ yPre[0] = -One /\ yPre[1] = 0

\* C4: every sample of a masked trace is zero once the post-processing of
\* its channel is complete, whatever the kernel wrote and whatever its pad;
\* with a fully masked channel the reduction is the sum of the other planes.
C4_Mask ==
    /\ \A i \in Channels : cstate[i] = "done" =>
          \A j \in Templates : ~used_chans[i * n_templates + j] =>
             \A idx \in TraceCells(i, j) : (IF pc = "done" THEN yPre[idx] ELSE ncc[idx]) = 0
    /\ (Returned /\ status = 0) =>
          \A i \in Channels : (\A j \in Templates : ~used_chans[i * n_templates + j]) =>
             \A idx \in 0..(offset - 1) :
                ncc[idx] = SumOver([c \in Channels |-> yPre[idx + c * offset]], Channels \ {i})

C4_Witness ==
    /\ Returned /\ status = 0 /\ n_channels = 2
    /\ \A j \in Templates : ~used_chans[n_templates + j]
    /\ \E idx \in NccCells(1) : Gross(kernelOut[idx])
    /\ \E idx \in 0..(offset - 1) : ncc[idx] # 0

\* C5: on a successful call every sample before the reduction lies in
\* [-1, 1] and is not NaN; sanitising has turned NaN into 0, (1.0, 1.01]
\* into exactly 1.0, [-1.01, -1.0) into exactly -1.0 and left the samples
\* of [-1, 1] as they were.
C5_Range ==
    (Returned /\ status = 0) =>
        /\ \A idx \in DOMAIN yPre : yPre[idx] # NaN /\ yPre[idx] >= -One /\ yPre[idx] <= One
        /\ \A i \in Channels, j \in Templates : used_chans[i * n_templates + j] =>
              \A idx \in TraceCells(i, j) : ySan[idx] = ClaimSan(kernelOut[idx])

C5_Witness ==
    /\ Returned /\ status = 0 /\ size = 2 /\ used_chans[0]
    /\ kernelOut[0] = NaN /\ kernelOut[1] = -10050
    /\ ySan[0] = 0 /\ ySan[1] = -One

\* C6: whenever the call returns -1 the output is in its pre-pad state: no
\* trace of any channel has had its pad shift applied.
C6_PrePadState ==
    (Returned /\ status = -1) => \A idx \in DOMAIN ncc : ncc[idx] = ySan[idx]

\* C7: a call of invalid shape is rejected at entry with an error status,
\* without reading the inputs or writing the output.
C7_RejectInvalidShape ==
    ~ValidShape => /\ plans = "none"
                   /\ ~inputsRead
                   /\ ~outputWritten
                   /\ pc = "done" => status > 0

\* C8: on every return path every workspace buffer and plan allocated during
\* the call has been released exactly once and nothing else has been freed;
\* an allocation failure returns a positive status and leaves the output
\* unwritten.
C8_Release ==
    /\ ~badFree
    /\ pc = "done" =>
         /\ \A a \in Arrays : ptrs[a] # "alloc"
         /\ \A a \in Arrays : \A i \in DOMAIN bufs[a] : bufs[a][i] # "alloc"
         /\ plans \in {"none", "destroyed"}
         /\ plans = "none" =>
               /\ status > 0
               /\ ~outputWritten
               /\ \A idx \in DOMAIN ncc : ncc[idx] = Stale

C8_Witness ==
    /\ pc = "done" /\ status = 1 /\ num_threads = 2 /\ wi = 1 /\ ai = 4
    /\ \A a \in Arrays : ptrs[a] = "freed" /\ bufs[a][0] = "freed"
    /\ bufs[1][1] = "freed" /\ bufs[4][1] = "null"

\* C9: a call of normxcorr_fftw_main with n_templates = 0 or steps = 0 is a
\* no-op returning success: it returns 0, writes no cell of ncc and reads
\* no image or template sample outside the arrays.
C9_NoOp ==
    (pc # "entry" /\ (n_templates = 0 \/ size = 0)) =>
        /\ pc = "done" /\ status = 0
        /\ nccWritten = {}
        /\ imageRead \subseteq 0..(image_len - 1)
        /\ templRead \subseteq 0..(n_templates * template_len - 1)

\* the sum of template t and template_len times its sum of squares, in the
\* units of the template samples
TemplSum(t) ==
    SumOver([p \in 0..(template_len - 1) |-> templates[t * template_len + p]],
            0..(template_len - 1))

TemplSquares(t) ==
    SumOver([p \in 0..(template_len - 1) |->
                templates[t * template_len + p] * templates[t * template_len + p]],
            0..(template_len - 1))

ZeroMean(t) == TemplSum(t) = 0

UnitNorm(t) == template_len * TemplSquares(t) = TemplUnit.den * TemplUnit.den

\* the variance of the image over the window [j, j + template_len), times
\* template_len^3, computed from the window itself
WindowVar(j) ==
    LET w == SumOver([p \in 0..(template_len - 1) |-> image[j + p]], 0..(template_len - 1))
    IN  SumOver([p \in 0..(template_len - 1) |->
                    (template_len * image[j + p] - w) * (template_len * image[j + p] - w)],
                0..(template_len - 1))

WindowAboveFloor(j) ==
    AboveFloor(WindowVar(j),
               template_len * template_len * template_len * ImageUnit.den * ImageUnit.den)

\* two results within 1e-4 of each other
Close(a, b) == a # NaN /\ b # NaN /\ a - b <= One \div 10000 /\ b - a <= One \div 10000

OracleCall ==
    /\ Returned /\ status = 0 /\ mode = "numeric" /\ n_channels = 1
    /\ fft_len >= 2 * image_len
    /\ \A t \in Templates : used_chans[t] /\ pad_array[t] = 0

FlatWindow(j) == \A p \in 0..(template_len - 1) : image[j + p] = image[j]

\* the variance of column j as the kernel holds it is below the floor
RunningBelowFloor(j) == DCmp(Moments(image)[j].var, acceptedDiff) < 0

FloorCall == mode = "floor" /\ pc = "done"

\* C11: in normxcorr_fftw_main, for column 0 and every later column alike,
\* whenever the running variance of the window is below the floor 1e-7, in
\* particular whenever the image is constant over the window, the output is
\* exactly 0 for every template, no division by the standard deviation is
\* performed for that column, and the kernel returns 0.
C11_FlatWindowZero ==
    FloorCall =>
        /\ status = 0
        /\ \A j \in 0..(size - 1) : (RunningBelowFloor(j) \/ FlatWindow(j)) =>
              \A t \in Templates : /\ ~floorOut[t * size + j].divided
                                    /\ floorOut[t * size + j].sgn = 0

\* C12: during the parallel channel loop with W = min(n_channels, N_THREADS)
\* workers, every workspace index in use is in [0, W) and names allocated
\* buffers, no two channel iterations running at the same time use the same
\* workspace, no output cell is written by two different workers, the
\* iteration of channel c writes only cells of the slice of channel c, and
\* the accumulator runs only after every channel iteration has finished.
C12_Exclusive ==
    /\ pc = "parallel" =>
          \A w \in Workers : wchan[w] # -1 =>
             /\ Tid(w) \in 0..(NumThreads(N_THREADS, n_channels) - 1)
             /\ wchan[w] \in wsBusy[Tid(w)]
             /\ \A a \in Arrays : bufs[a][Tid(w)] = "alloc"
    /\ \A k \in DOMAIN wsBusy : Cardinality(wsBusy[k]) <= 1
    /\ \A idx \in DOMAIN writers :
          /\ Cardinality({p[1] : p \in writers[idx]}) <= 1
          /\ \A p \in writers[idx] : idx \in NccCells(p[2])
    /\ accumulated => \A c \in Channels : cstate[c] = "done"

C12_Witness ==
    /\ pc = "parallel" /\ num_threads = 2 /\ n_channels = 2
    /\ wchan[0] = 1 /\ wchan[1] = 0
    /\ wsBusy[0] = {1} /\ wsBusy[1] = {0}
    /\ \E idx \in NccCells(0) : writers[idx] = {<<1, 0>>}
    /\ \E idx \in NccCells(1) : writers[idx] = {<<0, 1>>}

\* the loop of lines 535-603 run by one worker over the channels in order,
\* from trace number t on: the tensor and the overflow count it ends with
RECURSIVE InOrder(_, _, _)
InOrder(a, cnt, t) ==
    IF t >= n_channels * n_templates THEN [a |-> a, s |-> cnt]
    ELSE LET res == PostProcessTrace(a, t \div n_templates, t % n_templates, cnt,
                                     used_chans, pad_array)
         IN  InOrder(res.ncc, res.s, t + 1)

\* C13: for fixed inputs the returned status and, when it is 0, every sample
\* of the first output plane are those of the run of one worker over the
\* channels in order, whatever the number of workers, the assignment of the
\* channels to them and their interleaving; the private overflow counts are
\* combined only when the parallel loop ends.
C13_ScheduleIndependent ==
    /\ pc = "parallel" => r = 0 /\ s = 0
    /\ Returned =>
          LET ref == InOrder(kernelOut, 0, 0)
          IN  /\ status = DecideStatus(0, ref.s)
              /\ status = 0 =>
                    \A idx \in 0..(offset - 1) : ncc[idx] = Accumulate(ref.a)[idx]

C13_Witness ==
    /\ Returned /\ status = 0 /\ num_threads = 2 /\ n_channels = 2 /\ n_templates = 2
    /\ \A idx \in NccCells(0) : writers[idx] = {<<1, 0>>}
    /\ \A idx \in NccCells(1) : writers[idx] = {<<0, 1>>}
    /\ \E idx \in 0..(offset - 1) : ncc[idx] # 0
    /\ \E t \in 0..3 : used_chans[t] /\ pad_array[t] = 1

====
